---- MODULE Spec2Model ----
(***************************************************************************)
(* The deliberation state machine of habermolt (backend/app): the          *)
(* submission handlers of api/deliberations.py, the transition checks of   *)
(* services/deliberation_service.py that they enqueue as background tasks, *)
(* and the Habermas Machine rounds of services/habermas_service.py that    *)
(* the checks await.  One deliberation, a fixed pool of registered agents. *)
(*                                                                         *)
(* Granularity.  The request handlers are `async def` bodies without an    *)
(* await, so each runs to completion on the event loop: one action each.   *)
(* A transition check is a background task that runs after the response;   *)
(* it yields the event loop exactly once, at `await asyncio.to_thread`,    *)
(* so it is one action up to the await and a continuation after it.  The   *)
(* continuation commits twice (the statements inside run_*_round, then the *)
(* stage in the check): both commits are kept as separate persisted        *)
(* states, but no other coroutine runs between them.                       *)
(***************************************************************************)
EXTENDS Bags, FiniteSets, Integers, Sequences, TLC

\* ---- bounds of the model ----
NumAgents == 3          \* registered agents
MaxCritiqueRounds == 2  \* largest num_critique_rounds of a create request
NumCandidates == 2      \* settings.HABERMAS_NUM_CANDIDATES of the deployment
MaxTasks == 2           \* background tasks enqueued or suspended at a time
MaxEngineRounds == 3    \* Habermas Machine rounds stored or in progress

Agents == 1 .. NumAgents

\* ---- DeliberationStage ----
OPINION == "opinion"
RANKING == "ranking"
CRITIQUE == "critique"
CONCLUDED == "concluded"
FINALIZED == "finalized"

\* NULL of a nullable column (max_citizens, started_at, ...)
None == 0

NoTask == [kind |-> "none"]

\* ---- social_choice.utils ----
RANKING_MOCK == -1
TIES_ALLOWED == "ties_allowed"
RANDOM == "random"
TBRC == "tbrc"

NoResult == [social_ranking |-> <<>>, untied_social_ranking |-> <<>>]

\* ---- fastapi.status ----
HTTP_201_CREATED == 201
HTTP_400_BAD_REQUEST == 400
HTTP_404_NOT_FOUND == 404
HTTP_409_CONFLICT == 409

\* the ids a request path can carry, and the one of the stored deliberation
DeliberationIds == {"d1", "d2"}
Deliberations == {"d1"}

VARIABLES
    stage,                  \* deliberations.stage
    current_critique_round, \* deliberations.current_critique_round
    num_citizens,           \* deliberations.num_citizens
    max_citizens,           \* deliberations.max_citizens (None when unset)
    num_critique_rounds,    \* deliberations.num_critique_rounds
    started_at,             \* deliberations.started_at (None when unset)
    concluded_at,           \* deliberations.concluded_at
    finalized_at,           \* deliberations.finalized_at
    now,                    \* datetime.utcnow(), a logical clock
    opinions,               \* table opinions: the agent_id of each row
    statements,             \* table statements
    next_statement_id,      \* next primary key of table statements
    rankings,               \* table rankings
    critiques,              \* table critiques
    human_feedback,         \* table human_feedback
    pending,                \* enqueued check_transition tasks not yet started
    pending_feedback,       \* enqueued feedback check tasks not yet started
    running,                \* bag of checks suspended in asyncio.to_thread
    committing,             \* the check between its two commits, or NoTask
    response,               \* status code of the last answered submission
    all_rankings,           \* Schulze.aggregate: the rankings array
    num_candidates,         \* rankings.shape[1], the columns of the array
    tie_breaking_method,    \* Schulze._tie_breaking_method
    social_ranking_result,  \* the SocialRankingResult returned, or NoResult
    machine,                \* the fields of one HabermasMachine
    calls,                  \* the calls made on the machine, in order
    statement_text,         \* statements.statement_text of each statement id
    num_retries_on_error,   \* argument of predict_ranking, generate_statement
    seed,                   \* local seed of the call (None when not given)
    samples,                \* the seed of each llm_client.sample_text call
    model_response,         \* the response last sampled, or NoResponse
    num_statements,         \* len(statements) of predict_ranking
    model_result,           \* the RankingResult or StatementResult last made
    returned,               \* the call has returned model_result
    calling                 \* the model method that was called, or ""

vars == <<stage, current_critique_round, num_citizens, max_citizens,
          num_critique_rounds, started_at, concluded_at, finalized_at, now,
          opinions, statements, next_statement_id, rankings, critiques,
          human_feedback, pending, pending_feedback, running, committing,
          response, all_rankings, num_candidates, tie_breaking_method,
          social_ranking_result, machine, calls, statement_text,
          num_retries_on_error, seed, samples, model_response,
          num_statements, model_result, returned, calling>>

deliberation == <<stage, current_critique_round, num_citizens, started_at,
                  concluded_at, finalized_at, now>>
config == <<max_citizens, num_critique_rounds>>
submissions == <<opinions, rankings, critiques, human_feedback>>
stored_statements == <<statements, next_statement_id>>
tasks == <<pending, pending_feedback, running, committing>>
social_choice == <<all_rankings, num_candidates, tie_breaking_method,
                   social_ranking_result>>
habermas == <<machine, calls, statement_text>>
model_call == <<num_retries_on_error, seed, samples, model_response,
                num_statements, model_result, returned, calling>>

\* ---- helpers ----
\* A table whose rows carry no primary key in the model is the bag of its rows.
Insert(B, row) == B (+) SetToBag({row})

\* The lists a relationship without order_by can load from the rows B: the
\* SELECT has no ORDER BY, so the rows come in any order.
Loaded(B) ==
    LET n == BagCardinality(B)
    IN  {s \in [1 .. n -> BagToSet(B)] :
            \A e \in BagToSet(B) :
                Cardinality({i \in 1 .. n : s[i] = e}) = CopiesIn(e, B)}

\* the rows of one round of a table
OfRound(B, round) ==
    LET S == {e \in BagToSet(B) : e.round_number = round}
    IN  [e \in S |-> B[e]]

\* [c.critique_text for c in deliberation.critiques if c.round_number == round]
\* (a text is identified with its author)
CritiqueTexts(round) ==
    {[i \in DOMAIN s |-> s[i].agent_id] : s \in Loaded(OfRound(critiques, round))}

\* background tasks enqueued or suspended in the engine
TaskCount == pending + pending_feedback + BagCardinality(running)

\* Habermas Machine rounds stored or in progress
StartedRounds ==
    ((next_statement_id - 1) \div NumCandidates) + BagCardinality(running)

\* the event loop is free: no coroutine is between its two commits
LoopFree == committing = NoTask

\* Statement rows written from sorted_statements: social_ranking = idx + 1
StoreStatements(round) ==
    {[id |-> next_statement_id + idx, round_number |-> round,
      social_ranking |-> idx + 1] : idx \in 0 .. NumCandidates - 1}

\* mutant: the query without its social_ranking filter
Winners_AnyRank(round) ==
    {s \in statements : s.round_number = round}

\* rows a `.filter(round, social_ranking == 1)` query can return first
Winners(round) ==
    {s \in statements : s.round_number = round /\ s.social_ranking = 1}

RankingCount(round) == BagCardinality(OfRound(rankings, round))

CritiqueCount(round) == BagCardinality(OfRound(critiques, round))

\* ---- create_deliberation ----
create_deliberation ==
    /\ stage = OPINION
    /\ current_critique_round = 0
    /\ num_citizens = 0
    /\ max_citizens \in {None} \cup (2 .. NumAgents)
    /\ num_critique_rounds \in 1 .. MaxCritiqueRounds
    /\ started_at = None
    /\ concluded_at = None
    /\ finalized_at = None
    /\ now = 1
    /\ opinions = EmptyBag
    /\ statements = {}
    /\ next_statement_id = 1
    /\ rankings = EmptyBag
    /\ critiques = EmptyBag
    /\ human_feedback = EmptyBag
    /\ pending = 0
    /\ pending_feedback = 0
    /\ running = EmptyBag
    /\ committing = NoTask
    /\ response = None

\* HabermasMachine.__init__
NewMachine ==
    [round |-> 0, opinions |-> <<>>, critiques |-> <<>>,
     previous_winners |-> <<>>, previous_candidates |-> <<>>]

\* a response not sampled, a result not made
NoResponse == [template |-> "no response", explanation |-> <<>>,
               ranking |-> <<>>, incorrect |-> FALSE]
NoModelResult ==
    [ranking |-> <<>>, explanation |-> [prefix |-> "", response |-> NoResponse]]

\* a machine nobody has called, no statement stored, no model called
HabermasMachine ==
    /\ machine = NewMachine
    /\ calls = <<>>
    /\ statement_text = <<>>
    /\ num_retries_on_error = 0
    /\ seed = None
    /\ samples = <<>>
    /\ model_response = NoResponse
    /\ num_statements = 0
    /\ model_result = NoModelResult
    /\ returned = FALSE
    /\ calling = ""

\* the social choice method of _create_machine, before any aggregate call
Init ==
    /\ create_deliberation
    /\ HabermasMachine
    /\ all_rankings = <<>>
    /\ num_candidates = NumCandidates
    /\ tie_breaking_method = TBRC
    /\ social_ranking_result = NoResult

\* ---- request handlers ----
submit_opinion(agent) ==
    /\ LoopFree
    /\ TaskCount < MaxTasks
    /\ stage = OPINION
    /\ ~ BagIn(agent, opinions)
    /\ opinions' = Insert(opinions, agent)
    /\ pending' = pending + 1
    /\ response' = HTTP_201_CREATED
    /\ UNCHANGED <<deliberation, config, social_choice, model_call, habermas, stored_statements, rankings,
                   critiques, human_feedback, pending_feedback, running,
                   committing>>

\* mutant: the duplicate query filters on the wrong round column
ExistingRanking_WrongRound(agent) ==
    \E r \in BagToSet(rankings) :
        r.agent_id = agent /\ r.round_number = num_critique_rounds

\* "Check if agent already submitted for this round"
ExistingRanking(agent) ==
    \E r \in BagToSet(rankings) :
        r.agent_id = agent /\ r.round_number = current_critique_round

\* request.statement_rankings, a List[dict], is modelled as the set of its
\* {statement_id, rank} entries.  Nothing in the backend reads a stored list
\* (the engine predicts the rankings itself), so where the lists are not the
\* subject every client sends this one: the first batch of statements in
\* the order of their ranks.
RankedAsListed ==
    {[statement_id |-> k, rank |-> k] : k \in 1 .. NumCandidates}

\* statement_rankings is stored as it was sent
submit_ranking(agent, statement_rankings) ==
    /\ LoopFree
    /\ TaskCount < MaxTasks
    /\ stage = RANKING
    /\ ~ ExistingRanking(agent)
    /\ rankings' = Insert(rankings,
            [agent_id |-> agent, round_number |-> current_critique_round,
             statement_rankings |-> statement_rankings])
    /\ pending' = pending + 1
    /\ response' = HTTP_201_CREATED
    /\ UNCHANGED <<deliberation, config, social_choice, model_call, habermas, stored_statements, opinions,
                   critiques, human_feedback, pending_feedback, running,
                   committing>>

submit_critique(agent) ==
    /\ LoopFree
    /\ TaskCount < MaxTasks
    /\ stage = CRITIQUE
    /\ ~ \E c \in BagToSet(critiques) :
            c.agent_id = agent /\ c.round_number = current_critique_round
    /\ \E winner \in Winners(current_critique_round) :
          critiques' = Insert(critiques,
              [agent_id |-> agent, round_number |-> current_critique_round,
               winning_statement_id |-> winner.id])
    /\ pending' = pending + 1
    /\ response' = HTTP_201_CREATED
    /\ UNCHANGED <<deliberation, config, social_choice, model_call, habermas, stored_statements, opinions,
                   rankings, human_feedback, pending_feedback, running,
                   committing>>

submit_feedback(agent) ==
    /\ LoopFree
    /\ TaskCount < MaxTasks
    /\ stage = CONCLUDED
    /\ ~ \E f \in BagToSet(human_feedback) : f.agent_id = agent
    /\ \E final \in Winners(current_critique_round) :
          human_feedback' = Insert(human_feedback,
              [agent_id |-> agent, final_statement_id |-> final.id])
    /\ pending_feedback' = pending_feedback + 1
    /\ response' = HTTP_201_CREATED
    /\ UNCHANGED <<deliberation, config, social_choice, model_call, habermas, stored_statements, opinions,
                   rankings, critiques, pending, running, committing>>

\* ---- DeliberationService: the transition checks ----
\* mutant: the max_citizens test is dropped
OpinionPredicate_NoMax == BagCardinality(opinions) >= 2

\* the two early returns of _check_opinion_to_ranking_transition
OpinionPredicate ==
    /\ BagCardinality(opinions) >= 2
    /\ (max_citizens # None => BagCardinality(opinions) >= max_citizens)

\* up to `await habermas_service.run_opinion_round`
check_opinion_to_ranking_transition ==
    /\ stage = OPINION
    /\ IF OpinionPredicate
       THEN /\ StartedRounds < MaxEngineRounds
            /\ \E opinions_text \in Loaded(opinions) :
              running' = running (+) SetToBag({[kind |-> "opinion",
                           opinions_text |-> opinions_text,
                           critiques_text |-> <<>>,
                           round_number |-> 0]})
       ELSE UNCHANGED running
    /\ UNCHANGED <<deliberation, config, social_choice, model_call, habermas, submissions, stored_statements,
                   pending_feedback, committing>>

check_ranking_to_critique_transition ==
    /\ stage = RANKING
    /\ IF RankingCount(current_critique_round) < num_citizens
       THEN UNCHANGED stage
       ELSE stage' = CRITIQUE
    /\ UNCHANGED <<current_critique_round, num_citizens, started_at,
                   concluded_at, finalized_at, now, config, social_choice, model_call, habermas, submissions,
                   stored_statements, pending_feedback, running, committing>>

\* mutant: the comparison of the written rule, without the - 1
AnotherRound_Spec == current_critique_round < num_critique_rounds

\* "Run another critique round" or "Final round complete - conclude"
AnotherRound == current_critique_round < num_critique_rounds - 1

\* up to `await habermas_service.run_critique_round`, or to the commit
check_critique_transition ==
    /\ stage = CRITIQUE
    /\ IF CritiqueCount(current_critique_round) < num_citizens
       THEN UNCHANGED <<stage, concluded_at, now, running>>
       ELSE IF AnotherRound
            THEN /\ StartedRounds < MaxEngineRounds
                 /\ \E opinions_text \in Loaded(opinions),
                       critiques_text \in
                           CritiqueTexts(current_critique_round) :
                       running' = running (+) SetToBag({[kind |-> "critique",
                           opinions_text |-> opinions_text,
                           critiques_text |-> critiques_text,
                           round_number |-> current_critique_round + 1]})
                 /\ UNCHANGED <<stage, concluded_at, now>>
            ELSE /\ stage' = CONCLUDED
                 /\ concluded_at' = now
                 /\ now' = now + 1
                 /\ UNCHANGED running
    /\ UNCHANGED <<current_critique_round, num_citizens, started_at,
                   finalized_at, config, social_choice, model_call, habermas, submissions, stored_statements,
                   pending_feedback, committing>>

\* no test of the stage: submit_feedback's task calls it directly
check_concluded_to_finalized_transition ==
    /\ IF BagCardinality(human_feedback) < num_citizens
       THEN UNCHANGED <<stage, finalized_at, now>>
       ELSE /\ stage' = FINALIZED
            /\ finalized_at' = now
            /\ now' = now + 1
    /\ UNCHANGED <<current_critique_round, num_citizens, started_at,
                   concluded_at, config, social_choice, model_call, habermas, submissions, stored_statements,
                   running, committing>>

\* the background task of submit_opinion, submit_ranking, submit_critique
check_and_transition_state ==
    /\ LoopFree
    /\ pending > 0
    /\ pending' = pending - 1
    /\ UNCHANGED response
    /\ \/ check_opinion_to_ranking_transition
       \/ check_ranking_to_critique_transition
       \/ check_critique_transition
       \/ /\ stage = CONCLUDED
          /\ check_concluded_to_finalized_transition
          /\ UNCHANGED pending_feedback
       \/ /\ stage = FINALIZED
          /\ UNCHANGED <<deliberation, config, social_choice, model_call, habermas, submissions,
                         stored_statements, pending_feedback, running,
                         committing>>

\* the background task of submit_feedback, run in the thread pool
feedback_check_transition ==
    /\ pending_feedback > 0
    /\ pending_feedback' = pending_feedback - 1
    /\ check_concluded_to_finalized_transition
    /\ UNCHANGED <<pending, response>>

\* ---- HabermasService: the rounds ----
\* mutant: the round incremented before the await is flushed all the same
mediate_raises_RoundFlushed(t) ==
    /\ LoopFree
    /\ BagIn(t, running)
    /\ running' = running (-) SetToBag({t})
    /\ current_critique_round' = t.round_number
    /\ UNCHANGED <<stage, num_citizens, started_at, concluded_at,
                   finalized_at, now, config, social_choice, model_call, habermas, submissions, stored_statements,
                   pending, pending_feedback, committing, response>>

\* machine.mediate raises (nil ranking, model error, wrong input length):
\* the exception leaves the task, the session is rolled back
mediate_raises(t) ==
    /\ LoopFree
    /\ BagIn(t, running)
    /\ running' = running (-) SetToBag({t})
    /\ UNCHANGED <<deliberation, config, social_choice, model_call, habermas, submissions, stored_statements,
                   pending, pending_feedback, committing, response>>

\* mediate(opinions) returned: store the statements of round 0, commit
run_opinion_round(t) ==
    /\ LoopFree
    /\ BagIn(t, running)
    /\ t.kind = "opinion"
    /\ running' = running (-) SetToBag({t})
    /\ statements' = statements \cup StoreStatements(0)
    /\ next_statement_id' = next_statement_id + NumCandidates
    /\ committing' = t
    /\ UNCHANGED <<deliberation, config, social_choice, model_call, habermas, submissions, pending,
                   pending_feedback, response>>

\* mediate(opinions); mediate(critiques) returned: store the statements of
\* round_number; the commit also flushes the incremented round
run_critique_round(t) ==
    /\ LoopFree
    /\ BagIn(t, running)
    /\ t.kind = "critique"
    /\ Len(t.critiques_text) = Len(t.opinions_text)
    /\ running' = running (-) SetToBag({t})
    /\ statements' = statements \cup StoreStatements(t.round_number)
    /\ next_statement_id' = next_statement_id + NumCandidates
    /\ current_critique_round' = t.round_number
    /\ committing' = t
    /\ UNCHANGED <<stage, num_citizens, started_at, concluded_at,
                   finalized_at, now, config, social_choice, model_call, habermas, submissions, pending,
                   pending_feedback, response>>

\* mutant: the count of the opinions handed to the engine
OpinionCount_Captured == Len(committing.opinions_text)

\* len(deliberation.opinions) after run_opinion_round's commit has expired
\* the instance: the relationship is loaded again
OpinionCount == BagCardinality(opinions)

\* the rest of _check_opinion_to_ranking_transition after the await
opinion_to_ranking_commit ==
    /\ committing # NoTask
    /\ committing.kind = "opinion"
    /\ stage' = RANKING
    /\ num_citizens' = OpinionCount
    /\ started_at' = now
    /\ now' = now + 1
    /\ committing' = NoTask
    /\ UNCHANGED <<current_critique_round, concluded_at, finalized_at,
                   config, social_choice, model_call, habermas, submissions, stored_statements, pending,
                   pending_feedback, running, response>>

\* the rest of _check_critique_transition after the await
critique_to_ranking_commit ==
    /\ committing # NoTask
    /\ committing.kind = "critique"
    /\ stage' = RANKING
    /\ committing' = NoTask
    /\ UNCHANGED <<current_critique_round, num_citizens, started_at,
                   concluded_at, finalized_at, now, config, social_choice, model_call, habermas, submissions,
                   stored_statements, pending, pending_feedback, running,
                   response>>

Next ==
    \/ \E agent \in Agents : submit_opinion(agent)
    \/ \E agent \in Agents : submit_ranking(agent, RankedAsListed)
    \/ \E agent \in Agents : submit_critique(agent)
    \/ \E agent \in Agents : submit_feedback(agent)
    \/ check_and_transition_state
    \/ feedback_check_transition
    \/ \E t \in BagToSet(running) : mediate_raises(t)
    \/ \E t \in BagToSet(running) : run_opinion_round(t)
    \/ \E t \in BagToSet(running) : run_critique_round(t)
    \/ opinion_to_ranking_commit
    \/ critique_to_ranking_commit

Spec == Init /\ [][Next]_vars

\* ---- the run of scripts/integration_test.py: one critique round, the
\* engine never fails, every task runs, every participant submits ----
LiveInit == Init /\ num_critique_rounds = 1

\* get_participating_agents: the agents that have submitted an opinion
Participant(agent) == BagIn(agent, opinions)

LiveNext ==
    \/ \E agent \in Agents : submit_opinion(agent)
    \/ \E agent \in Agents :
          Participant(agent) /\ submit_ranking(agent, RankedAsListed)
    \/ \E agent \in Agents : Participant(agent) /\ submit_critique(agent)
    \/ \E agent \in Agents : Participant(agent) /\ submit_feedback(agent)
    \/ check_and_transition_state
    \/ feedback_check_transition
    \/ \E t \in BagToSet(running) : run_opinion_round(t)
    \/ opinion_to_ranking_commit

LiveSpec ==
    /\ LiveInit
    /\ [][LiveNext]_vars
    /\ WF_vars(check_and_transition_state)
    /\ WF_vars(feedback_check_transition)
    /\ WF_vars(\E t \in BagToSet(running) : run_opinion_round(t))
    /\ WF_vars(opinion_to_ranking_commit)
    /\ \A agent \in Agents :
          /\ WF_vars(submit_opinion(agent))
          /\ WF_vars(Participant(agent) /\ submit_ranking(agent, RankedAsListed))
          /\ WF_vars(Participant(agent) /\ submit_critique(agent))
          /\ WF_vars(Participant(agent) /\ submit_feedback(agent))

\* ---- the submissions that are refused ----
\* mutant: the exception is raised after the check has been enqueued
HTTPException_AfterAddTask(status_code) ==
    /\ response' = status_code
    /\ pending' = pending + 1
    /\ UNCHANGED <<deliberation, config, social_choice, model_call, habermas, submissions, stored_statements,
                   pending_feedback, running, committing>>

\* raise HTTPException(status_code): the handler ends before its db.add,
\* db.commit and background_tasks.add_task
HTTPException(status_code) ==
    /\ response' = status_code
    /\ UNCHANGED <<deliberation, config, social_choice, model_call, habermas, submissions, stored_statements,
                   tasks>>

\* the tests of each handler, in the order of the code
submit_opinion_status(deliberation_id, agent) ==
    IF deliberation_id \notin Deliberations THEN HTTP_404_NOT_FOUND
    ELSE IF stage # OPINION THEN HTTP_400_BAD_REQUEST
    ELSE IF BagIn(agent, opinions) THEN HTTP_409_CONFLICT
    ELSE HTTP_201_CREATED

submit_ranking_status(deliberation_id, agent) ==
    IF deliberation_id \notin Deliberations THEN HTTP_404_NOT_FOUND
    ELSE IF stage # RANKING THEN HTTP_400_BAD_REQUEST
    ELSE IF ExistingRanking(agent) THEN HTTP_409_CONFLICT
    ELSE HTTP_201_CREATED

submit_critique_status(deliberation_id, agent) ==
    IF deliberation_id \notin Deliberations THEN HTTP_404_NOT_FOUND
    ELSE IF stage # CRITIQUE THEN HTTP_400_BAD_REQUEST
    ELSE IF \E c \in BagToSet(critiques) :
               c.agent_id = agent /\ c.round_number = current_critique_round
         THEN HTTP_409_CONFLICT
    ELSE HTTP_201_CREATED

submit_feedback_status(deliberation_id, agent) ==
    IF deliberation_id \notin Deliberations THEN HTTP_404_NOT_FOUND
    ELSE IF stage # CONCLUDED THEN HTTP_400_BAD_REQUEST
    ELSE IF \E f \in BagToSet(human_feedback) : f.agent_id = agent
         THEN HTTP_409_CONFLICT
    ELSE HTTP_201_CREATED

submit_opinion_raises(deliberation_id, agent) ==
    /\ LoopFree
    /\ submit_opinion_status(deliberation_id, agent) # HTTP_201_CREATED
    /\ HTTPException(submit_opinion_status(deliberation_id, agent))

submit_ranking_raises(deliberation_id, agent) ==
    /\ LoopFree
    /\ submit_ranking_status(deliberation_id, agent) # HTTP_201_CREATED
    /\ HTTPException(submit_ranking_status(deliberation_id, agent))

submit_critique_raises(deliberation_id, agent) ==
    /\ LoopFree
    /\ submit_critique_status(deliberation_id, agent) # HTTP_201_CREATED
    /\ HTTPException(submit_critique_status(deliberation_id, agent))

submit_feedback_raises(deliberation_id, agent) ==
    /\ LoopFree
    /\ submit_feedback_status(deliberation_id, agent) # HTTP_201_CREATED
    /\ HTTPException(submit_feedback_status(deliberation_id, agent))

\* every request of the API, the refused ones included
RequestNext ==
    \/ Next
    \/ \E d \in DeliberationIds, agent \in Agents :
          submit_opinion_raises(d, agent)
    \/ \E d \in DeliberationIds, agent \in Agents :
          submit_ranking_raises(d, agent)
    \/ \E d \in DeliberationIds, agent \in Agents :
          submit_critique_raises(d, agent)
    \/ \E d \in DeliberationIds, agent \in Agents :
          submit_feedback_raises(d, agent)

\* a deliberation created for all the registered agents
RequestInit == Init /\ max_citizens = NumAgents

RequestSpec == RequestInit /\ [][RequestNext]_vars

\* ---- the lists a client can send to POST /rankings ----
\* the statements of the current round, as get_current_statements loads them
CurrentStatements ==
    {s \in statements : s.round_number = current_critique_round}

\* some id that is no statement of the deliberation
ForeignStatementId == 0

\* a list that ranks the current statements 1..K, and one list for each way
\* of not doing so: a statement missing, a foreign statement id, a rank
\* repeated, a rank out of range
RankingLists ==
    LET Listed == {[statement_id |-> s.id, rank |-> s.social_ranking] :
                      s \in CurrentStatements}
    IN  { Listed,
          {e \in Listed : e.rank # 1},
          {[statement_id |-> IF e.rank = 1 THEN ForeignStatementId
                             ELSE e.statement_id,
            rank |-> e.rank] : e \in Listed},
          {[statement_id |-> e.statement_id, rank |-> 1] : e \in Listed},
          {[statement_id |-> e.statement_id, rank |-> e.rank + 1] :
              e \in Listed} }

\* the run of the integration test up to the end of its ranking phase, with
\* clients that send any of the lists
RankingNext ==
    \/ \E agent \in Agents : submit_opinion(agent)
    \/ \E agent \in Agents, statement_rankings \in RankingLists :
          Participant(agent) /\ submit_ranking(agent, statement_rankings)
    \/ check_and_transition_state
    \/ \E t \in BagToSet(running) : run_opinion_round(t)
    \/ opinion_to_ranking_commit

RankingSpec == LiveInit /\ [][RankingNext]_vars

\* ---- habermas_machine.social_choice: the Schulze method ----
NumSchulzeCandidates == 3   \* columns of the rankings array
MaxVoters == 3              \* rows of the rankings array

\* the candidates are the column indices of the array
Candidates == 0 .. num_candidates - 1

\* np.unique(ranking, return_inverse=True): every value is replaced by the
\* number of distinct smaller values
normalize_ranking(ranking) ==
    [c \in DOMAIN ranking |->
        Cardinality({ranking[d] : d \in {e \in DOMAIN ranking :
                                             ranking[e] < ranking[c]}})]

is_untied_ranking(ranking) ==
    Cardinality({ranking[c] : c \in DOMAIN ranking})
        = Cardinality(DOMAIN ranking)

\* a row check_rankings accepts: sorted, it starts with 0 and rises in
\* steps of 0 or 1
check_rankings(row) ==
    \E m \in Candidates : {row[c] : c \in Candidates} = 0 .. m

\* a row of a citizen without a ranking
MockRow == [c \in Candidates |-> RANKING_MOCK]

\* the rows without the mock rows (a row is mock in all columns or in none)
filter_out_mocks(rows) == SelectSeq(rows, LAMBDA row : row # MockRow)

\* pairwise_defeats[x][y]: the citizens that rank x strictly better than y
compute_pairwise_defeats(rows) ==
    [idx \in Candidates |-> [idy \in Candidates |->
        Cardinality({citizen_id \in DOMAIN rows :
            rows[citizen_id][idx] < rows[citizen_id][idy]})]]

Max(a, b) == IF a >= b THEN a ELSE b
Min(a, b) == IF a <= b THEN a ELSE b

\* the second loop nest of _compute_strongest_path_strengths from idx on;
\* an iteration idx reads only row idx and column idx, which it does not
\* write, so its in-place updates are one simultaneous update
RECURSIVE RelaxPaths(_, _)
RelaxPaths(path_strengths, idx) ==
    IF idx = num_candidates THEN path_strengths
    ELSE RelaxPaths(
            [idy \in Candidates |-> [idz \in Candidates |->
                IF idx # idy /\ idx # idz /\ idy # idz
                THEN Max(path_strengths[idy][idz],
                         Min(path_strengths[idy][idx],
                             path_strengths[idx][idz]))
                ELSE path_strengths[idy][idz]]],
            idx + 1)

\* mutant: the first loop nest only, no path through a third candidate
compute_strongest_path_strengths_Direct(pairwise_defeats) ==
    [idx \in Candidates |-> [idy \in Candidates |->
        IF idx # idy /\ pairwise_defeats[idx][idy] > pairwise_defeats[idy][idx]
        THEN pairwise_defeats[idx][idy] ELSE 0]]

compute_strongest_path_strengths(pairwise_defeats) ==
    RelaxPaths(
        [idx \in Candidates |-> [idy \in Candidates |->
            IF idx # idy /\ pairwise_defeats[idx][idy] > pairwise_defeats[idy][idx]
            THEN pairwise_defeats[idx][idy] ELSE 0]],
        0)

\* mutant: the count is ranked without the change of sign
rank_candidates_Ascending(path_strengths) ==
    LET weakly_preferred_count ==
            [x \in Candidates |-> Cardinality({y \in Candidates :
                path_strengths[x][y] - path_strengths[y][x] >= 0})]
    IN  normalize_ranking(weakly_preferred_count)

\* np.unique(-weakly_preferred_count, return_inverse=True)
rank_candidates(path_strengths) ==
    LET weakly_preferred_count ==
            [x \in Candidates |-> Cardinality({y \in Candidates :
                path_strengths[x][y] - path_strengths[y][x] >= 0})]
    IN  normalize_ranking([x \in Candidates |-> 0 - weakly_preferred_count[x]])

aggregate_with_ties(rows) ==
    rank_candidates(compute_strongest_path_strengths(
        compute_pairwise_defeats(rows)))

\* mutant: the ranking is not multiplied with the number of candidates
untie_ranking_with_ballot_Unscaled(ranking, ballot) ==
    normalize_ranking([c \in DOMAIN ranking |->
        normalize_ranking(ranking)[c] + normalize_ranking(ballot)[c]])

\* normalize_ranking(ranking) * len(ranking) + normalize_ranking(ballot),
\* renormalized
untie_ranking_with_ballot(ranking, ballot) ==
    normalize_ranking([c \in DOMAIN ranking |->
        normalize_ranking(ranking)[c] * Cardinality(DOMAIN ranking)
            + normalize_ranking(ballot)[c]])

\* what rng.permutation(np.arange(K)) can return
RandomBallots ==
    {p \in [Candidates -> Candidates] :
        \A c, d \in Candidates : p[c] = p[d] => c = d}

\* what rng.shuffle can make of the rows
Shuffled(rows) ==
    {[i \in DOMAIN rows |-> rows[p[i]]] :
        p \in {q \in [DOMAIN rows -> DOMAIN rows] :
                  \A i, j \in DOMAIN rows : q[i] = q[j] => i = j}}

\* the TBRC loop over the shuffled ballots from ballot i on
RECURSIVE UntieWithBallots(_, _, _)
UntieWithBallots(social_ranking, random_ballots, i) ==
    IF i > Len(random_ballots)
    THEN [untied |-> FALSE, social_ranking |-> social_ranking]
    ELSE LET next == untie_ranking_with_ballot(social_ranking,
                                               random_ballots[i])
         IN  IF is_untied_ranking(next)
             THEN [untied |-> TRUE, social_ranking |-> next]
             ELSE UntieWithBallots(next, random_ballots, i + 1)

\* the SocialRankingResults Schulze.aggregate can return, over all seeds
SocialRankingResult(social_ranking, untied_social_ranking) ==
    [social_ranking |-> social_ranking,
     untied_social_ranking |-> untied_social_ranking]

\* mutant: the ties left by the ballots are not broken by a random ballot
BreakRandomly_Skipped(tied, social_ranking) ==
    {SocialRankingResult(tied, social_ranking)}

\* "If there are still ties or the method is random, break ties randomly"
BreakRandomly(tied, social_ranking) ==
    {SocialRankingResult(tied,
        untie_ranking_with_ballot(social_ranking, random_ballot)) :
            random_ballot \in RandomBallots}

Aggregate(rows, method) ==
    LET filtered == filter_out_mocks(rows)
    IN  IF Len(filtered) = 0
        THEN {SocialRankingResult(MockRow, p) : p \in RandomBallots}
        ELSE LET social_ranking == aggregate_with_ties(filtered)
             IN  IF is_untied_ranking(social_ranking) \/ method = TIES_ALLOWED
                 THEN {SocialRankingResult(social_ranking, social_ranking)}
                 ELSE IF method = TBRC
                 THEN UNION {
                        LET r == UntieWithBallots(social_ranking,
                                                  random_ballots, 1)
                        IN  IF r.untied
                            THEN {SocialRankingResult(social_ranking,
                                                      r.social_ranking)}
                            ELSE BreakRandomly(social_ranking,
                                               r.social_ranking) :
                        random_ballots \in Shuffled(filtered)}
                 ELSE BreakRandomly(social_ranking, social_ranking)

\* the rows of a valid array: rankings with ties, or mock rows
Ballots ==
    {row \in [Candidates -> Candidates] : check_rankings(row)} \cup {MockRow}

RankingArrays == UNION {[1 .. n -> Ballots] : n \in 0 .. MaxVoters}

\* np.int32([...]): a row of the array, its columns counted from 0
Int32Row(values) == [c \in 0 .. Len(values) - 1 |-> values[c + 1]]

\* n * [[...]]: the same ballot of n voters
Voters(n, values) == [i \in 1 .. n |-> Int32Row(values)]

\* the rankings of schulze_test_cases with 4 candidates (electowiki.org)
Example1 ==
    Voters(5, <<0, 2, 1, 3>>) \o Voters(2, <<0, 3, 1, 2>>)
        \o Voters(3, <<0, 3, 2, 1>>) \o Voters(4, <<1, 0, 2, 3>>)
        \o Voters(3, <<3, 1, 0, 2>>) \o Voters(3, <<3, 2, 0, 1>>)
        \o Voters(1, <<1, 3, 2, 0>>) \o Voters(5, <<2, 1, 3, 0>>)
        \o Voters(4, <<3, 2, 1, 0>>)

Example2 ==
    Voters(3, <<0, 1, 2, 3>>) \o Voters(2, <<1, 2, 3, 0>>)
        \o Voters(2, <<3, 1, 2, 0>>) \o Voters(2, <<3, 1, 0, 2>>)

Example3 == Voters(1, <<0, 0, 1, 2>>) \o Voters(1, <<0, 1, 3, 2>>)

ExampleMH ==
    Voters(2, <<0, 1, 3, 2>>) \o Voters(1, <<1, 3, 2, 0>>)
        \o Voters(1, <<2, 3, 0, 1>>) \o Voters(1, <<2, 0, 3, 1>>)

schulze_test_cases == {Example1, Example2, Example3, ExampleMH}

\* the arrays of the model: all arrays up to the bounds with any tie
\* breaking method, and the arrays of test_schulze_method with TIES_ALLOWED
SchulzeInit ==
    /\ create_deliberation
    /\ HabermasMachine
    /\ max_citizens = None
    /\ num_critique_rounds = 1
    /\ \/ /\ num_candidates = NumSchulzeCandidates
          /\ all_rankings \in RankingArrays
          /\ tie_breaking_method \in {TIES_ALLOWED, RANDOM, TBRC}
       \/ /\ all_rankings \in schulze_test_cases
          /\ num_candidates = Cardinality(DOMAIN all_rankings[1])
          /\ tie_breaking_method = TIES_ALLOWED
    /\ social_ranking_result = NoResult

\* Schulze(tie_breaking_method).aggregate(all_rankings, seed)
aggregate ==
    /\ social_ranking_result = NoResult
    /\ social_ranking_result' \in Aggregate(all_rankings, tie_breaking_method)
    /\ UNCHANGED <<deliberation, config, submissions, stored_statements,
                   tasks, response, all_rankings, num_candidates,
                   tie_breaking_method, habermas, model_call>>

SchulzeSpec == SchulzeInit /\ [][aggregate]_vars

\* ---- habermas_machine.machine: one HabermasMachine ----
MachineCitizens == 2    \* num_citizens of the machine
MaxCalls == 3           \* calls on the machine

\* opinion and critique texts, texts of generated statements
Texts == {"a", "b"}
StatementTexts == {<<"statement", k>> : k \in 1 .. NumCandidates}

\* the arguments of a mediate call: lists of any length around num_citizens
MediateArguments ==
    UNION {[1 .. n -> Texts] :
              n \in MachineCitizens - 1 .. MachineCitizens + 1}

\* `if self._round == 0: self._opinions = ... else: self._critiques.append`
Received(m, opinions_or_critiques) ==
    IF m.round = 0
    THEN [m EXCEPT !.opinions = opinions_or_critiques]
    ELSE [m EXCEPT !.critiques = Append(@, opinions_or_critiques)]

\* np.argsort of an untied ranking: position k holds the index ranked k
argsort(untied_social_ranking) ==
    [k \in DOMAIN untied_social_ranking |->
        CHOOSE i \in DOMAIN untied_social_ranking :
            untied_social_ranking[i] = k]

\* the untied rankings the social choice method returns for the candidates
UntiedRankings ==
    {r \in [0 .. NumCandidates - 1 -> 0 .. NumCandidates - 1] :
        \A i, j \in DOMAIN r : r[i] = r[j] => i = j}

Call(method, argument, raised) ==
    [method |-> method, argument |-> argument, raised |-> raised]

\* the machine m after mediate has returned: the candidates generated,
\* ranked and sorted, the winner recorded
Returned(m, opinions_or_critiques, generated, untied_social_ranking) ==
    LET sorted_indices == argsort(untied_social_ranking)
        sorted_statements ==
            [k \in 1 .. NumCandidates |-> generated[sorted_indices[k - 1]]]
        winner == sorted_statements[1]
    IN  [Received(m, opinions_or_critiques) EXCEPT
            !.previous_winners = Append(@, winner),
            !.previous_candidates = Append(@, sorted_statements),
            !.round = @ + 1]

mediate(opinions_or_critiques, generated, untied_social_ranking) ==
    /\ Len(calls) < MaxCalls
    /\ Len(opinions_or_critiques) = MachineCitizens
    /\ machine' = Returned(machine, opinions_or_critiques, generated,
                           untied_social_ranking)
    /\ calls' = Append(calls, Call("mediate", opinions_or_critiques, FALSE))
    /\ UNCHANGED <<deliberation, config, social_choice, model_call, submissions,
                   stored_statements, tasks, response, statement_text>>

\* mediate raises ValueError at its first statement: wrong length
mediate_ValueError(opinions_or_critiques) ==
    /\ Len(calls) < MaxCalls
    /\ Len(opinions_or_critiques) # MachineCitizens
    /\ calls' = Append(calls, Call("mediate", opinions_or_critiques, TRUE))
    /\ UNCHANGED <<deliberation, config, social_choice, model_call, submissions,
                   stored_statements, tasks, response, machine,
                   statement_text>>

\* mediate raises after it has received its argument: _get_rankings got a
\* ranking None from the reward model, or a model call raised
get_rankings_raises(opinions_or_critiques) ==
    /\ Len(calls) < MaxCalls
    /\ Len(opinions_or_critiques) = MachineCitizens
    /\ machine' = Received(machine, opinions_or_critiques)
    /\ calls' = Append(calls, Call("mediate", opinions_or_critiques, TRUE))
    /\ UNCHANGED <<deliberation, config, social_choice, model_call, submissions,
                   stored_statements, tasks, response, statement_text>>

overwrite_previous_winner(winner) ==
    /\ Len(calls) < MaxCalls
    /\ IF machine.round = 0
       THEN /\ calls' = Append(calls,
                             Call("overwrite_previous_winner", winner, TRUE))
            /\ UNCHANGED machine
       ELSE /\ machine' = [machine EXCEPT
                   !.previous_winners[Len(machine.previous_winners)] = winner]
            /\ calls' = Append(calls,
                             Call("overwrite_previous_winner", winner, FALSE))
    /\ UNCHANGED <<deliberation, config, social_choice, model_call, submissions,
                   stored_statements, tasks, response, statement_text>>

MachineNext ==
    \/ \E opinions_or_critiques \in MediateArguments,
          generated \in [0 .. NumCandidates - 1 -> StatementTexts],
          untied_social_ranking \in UntiedRankings :
          mediate(opinions_or_critiques, generated, untied_social_ranking)
    \/ \E opinions_or_critiques \in MediateArguments :
          mediate_ValueError(opinions_or_critiques)
    \/ \E opinions_or_critiques \in MediateArguments :
          get_rankings_raises(opinions_or_critiques)
    \/ overwrite_previous_winner("winner3")

MachineInit == Init /\ max_citizens = None /\ num_critique_rounds = 1

MachineSpec == MachineInit /\ [][MachineNext]_vars

\* ---- HabermasService with its machine: the texts of the statements ----
\* the texts of the rows StoreStatements writes from sorted_statements
StoreStatementTexts(sorted_statements) ==
    [id \in next_statement_id .. next_statement_id + NumCandidates - 1 |->
        sorted_statements[id - next_statement_id + 1]]

\* the candidate texts a mediate call of the service generates: a text is
\* identified with its place in the loop of _generate_statements, so the
\* calls differ in the ranking of the candidates only
Generated == {[idx \in 0 .. NumCandidates - 1 |-> <<"statement", idx + 1>>]}

\* run_opinion_round: a new machine, mediate(opinions), the rows stored
HabermasService_run_opinion_round(t, generated, untied_social_ranking) ==
    /\ LoopFree
    /\ BagIn(t, running)
    /\ t.kind = "opinion"
    /\ running' = running (-) SetToBag({t})
    /\ machine' = Returned(NewMachine, t.opinions_text, generated,
                           untied_social_ranking)
    /\ calls' = <<Call("mediate", t.opinions_text, FALSE)>>
    /\ statements' = statements \cup StoreStatements(0)
    /\ statement_text' = statement_text @@
          StoreStatementTexts(machine'.previous_candidates[1])
    /\ next_statement_id' = next_statement_id + NumCandidates
    /\ committing' = t
    /\ UNCHANGED <<deliberation, config, social_choice, model_call, submissions, pending,
                   pending_feedback, response>>

\* run_critique_round: a new machine, mediate(opinions) to set it up, then
\* mediate(critiques), the rows of the second call stored
HabermasService_run_critique_round(t, set_up, generated, untied_social_ranking) ==
    /\ LoopFree
    /\ BagIn(t, running)
    /\ t.kind = "critique"
    /\ Len(t.critiques_text) = Len(t.opinions_text)
    /\ running' = running (-) SetToBag({t})
    /\ machine' = Returned(Returned(NewMachine, t.opinions_text,
                                    set_up.generated,
                                    set_up.untied_social_ranking),
                           t.critiques_text, generated, untied_social_ranking)
    /\ calls' = <<Call("mediate", t.opinions_text, FALSE),
                  Call("mediate", t.critiques_text, FALSE)>>
    /\ statements' = statements \cup StoreStatements(t.round_number)
    /\ statement_text' = statement_text @@
          StoreStatementTexts(machine'.previous_candidates[2])
    /\ next_statement_id' = next_statement_id + NumCandidates
    /\ current_critique_round' = t.round_number
    /\ committing' = t
    /\ UNCHANGED <<stage, num_citizens, started_at, concluded_at,
                   finalized_at, now, config, social_choice, model_call, submissions,
                   pending, pending_feedback, response>>

\* two critique rounds, the engine never fails
EngineInit == Init /\ max_citizens = 2 /\ num_critique_rounds = 2

EngineNext ==
    \/ \E agent \in Agents : submit_opinion(agent)
    \/ \E agent \in Agents :
          Participant(agent) /\ submit_ranking(agent, RankedAsListed)
    \/ \E agent \in Agents : Participant(agent) /\ submit_critique(agent)
    \/ check_and_transition_state
    \/ \E t \in BagToSet(running), generated \in Generated,
          untied_social_ranking \in UntiedRankings :
          HabermasService_run_opinion_round(t, generated,
                                            untied_social_ranking)
    \/ \E t \in BagToSet(running), generated \in Generated,
          untied_social_ranking \in UntiedRankings,
          set_up \in [generated : Generated,
                      untied_social_ranking : UntiedRankings] :
          HabermasService_run_critique_round(t, set_up, generated,
                                             untied_social_ranking)
    \/ opinion_to_ranking_commit
    \/ critique_to_ranking_commit

EngineSpec == EngineInit /\ [][EngineNext]_vars

\* ---- reward_model.cot_ranking_model: the response of the model ----
MaxStatements == 3      \* statements to rank: 2 .. MaxStatements
MaxTextLength == 5      \* characters of a ranking text

\* [A-Z]: the letters of the statements, in alphabetical order; with two
\* statements the last letter names no statement
Alphabet == <<"A", "B", "C">>
Letters == {Alphabet[i] : i \in DOMAIN Alphabet}
Operators == {">", "="}

\* \w: the letters, and "x" for any lower case letter or digit; "<" stands
\* for any other character
WordChars == Letters \cup {"x"}
RankingChars == Letters \cup Operators \cup {"<"}

\* re.search(r'\b([A-Z](?:\s*(?:>|=)\s*[A-Z])*)\b', text), blanks removed:
\* the leftmost start, then the longest match that ends at a word boundary;
\* <<>> when nothing matches (None)
extract_arrow_ranking(text) ==
    LET Pairs(i, k) ==
            \A m \in 1 .. k :
                /\ i + 2 * m <= Len(text)
                /\ text[i + 2 * m - 1] \in Operators
                /\ text[i + 2 * m] \in Letters
        Ends(i) ==
            {j \in i .. Len(text) :
                /\ (j - i) % 2 = 0
                /\ Pairs(i, (j - i) \div 2)
                /\ (j = Len(text) \/ text[j + 1] \notin WordChars)}
        Starts ==
            {i \in DOMAIN text :
                /\ text[i] \in Letters
                /\ (i = 1 \/ text[i - 1] \notin WordChars)
                /\ Ends(i) # {}}
    IN  IF Starts = {} THEN <<>>
        ELSE LET i == CHOOSE a \in Starts : \A b \in Starts : a <= b
                 j == CHOOSE a \in Ends(i) : \A b \in Ends(i) : b <= a
             IN  SubSeq(text, i, j)

\* str.split(sep) of a text of characters
RECURSIVE Split(_, _)
Split(text, sep) ==
    IF \A i \in DOMAIN text : text[i] # sep THEN <<text>>
    ELSE LET i == CHOOSE a \in DOMAIN text :
                     text[a] = sep /\ \A b \in 1 .. a - 1 : text[b] # sep
         IN  <<SubSeq(text, 1, i - 1)>>
                 \o Split(SubSeq(text, i + 1, Len(text)), sep)

\* text contains the two characters a, b in a row
Contains(text, a, b) ==
    \E i \in 1 .. Len(text) - 1 : text[i] = a /\ text[i + 1] = b

\* the groups of an arrow ranking: split at '>', each group split at '='
Groups(arrow_ranking) ==
    LET groups == Split(arrow_ranking, ">")
    IN  [g \in DOMAIN groups |-> Split(groups[g], "=")]

check_arrow_format(arrow_ranking) ==
    /\ Len(arrow_ranking) >= 3
    /\ \A i \in DOMAIN arrow_ranking :
          arrow_ranking[i] \in Letters \cup Operators
    /\ ~ Contains(arrow_ranking, ">", ">")
    /\ arrow_ranking[1] # "="
    /\ arrow_ranking[Len(arrow_ranking)] # "="
    /\ ~ Contains(arrow_ranking, "=", ">")
    /\ LET groups == Groups(arrow_ranking)
       IN  /\ \A g \in DOMAIN groups : Split(arrow_ranking, ">")[g] # <<>>
           /\ \A g, h \in DOMAIN groups :
                 \A i \in DOMAIN groups[g], j \in DOMAIN groups[h] :
                     groups[g][i] = groups[h][j] => g = h /\ i = j

\* "Convert arrow ranking to numpy array": the rank of every letter that
\* occurs, in the alphabetical order of the letters
ranking_array(arrow_ranking) ==
    LET groups == Groups(arrow_ranking)
        elements == {arrow_ranking[i] : i \in DOMAIN arrow_ranking} \cap Letters
        unique_elements ==
            SelectSeq(Alphabet, LAMBDA element : element \in elements)
        Ranks(element) ==
            {g \in DOMAIN groups :
                \E i \in DOMAIN groups[g] : groups[g][i] = <<element>>}
        ranking_dict ==
            [element \in elements |->
                IF Ranks(element) = {} THEN 0
                ELSE (CHOOSE g \in Ranks(element) :
                         \A h \in Ranks(element) : h <= g) - 1]
    IN  [i \in DOMAIN unique_elements |-> ranking_dict[unique_elements[i]]]

\* base_model.RankingResult(ranking, explanation); ranking None is <<>>;
\* the explanation is the response, after a prefix when the ranking is None
RankingResult(ranking, prefix, rsp) ==
    [ranking |-> ranking, explanation |-> [prefix |-> prefix, response |-> rsp]]

\* the arrow ranking _process_model_response converts: the one after <sep>
\* (or after "final ranking:"), else the one found in the explanation
arrow_ranking_of(rsp) ==
    LET explanation ==
            IF rsp.template = "answer" THEN rsp.explanation
            ELSE rsp.explanation \o <<":">> \o rsp.ranking
        arrow_ranking == extract_arrow_ranking(rsp.ranking)
    IN  IF arrow_ranking # <<>> /\ check_arrow_format(arrow_ranking)
        THEN arrow_ranking
        ELSE extract_arrow_ranking(explanation)

\* _process_model_response(response, num_statements)
process_model_response(rsp, n) ==
    IF rsp.template = "none"
    THEN RankingResult(<<>>, "INCORRECT_TEMPLATE", rsp)
    ELSE LET arrow_ranking == arrow_ranking_of(rsp)
         IN  IF arrow_ranking = <<>> \/ ~ check_arrow_format(arrow_ranking)
             THEN RankingResult(<<>>, "INCORRECT_ARROW_RANKING", rsp)
             ELSE IF Len(ranking_array(arrow_ranking)) # n
             THEN RankingResult(<<>>, "INCORRECT_RANKING_LENGTH", rsp)
             ELSE RankingResult(ranking_array(arrow_ranking), "", rsp)

\* the texts after <sep> or "final ranking:", the texts before it
RankingTexts ==
    UNION {[1 .. n -> RankingChars] : n \in 0 .. MaxTextLength}
ExplanationTexts == {<<>>, <<"A", "x">>, <<"B", ">", "A">>}

\* the responses of the model: with <sep> and </answer>, with "final
\* ranking:", or with neither
Responses ==
    [template : {"answer", "final_ranking", "none"},
     explanation : ExplanationTexts, ranking : RankingTexts,
     incorrect : {FALSE}]

ParseInit ==
    /\ Init
    /\ max_citizens = None
    /\ num_critique_rounds = 1

\* llm_client.sample_text returns a response for num_statements statements
sample_text ==
    /\ model_response = NoResponse
    /\ model_response' \in Responses
    /\ num_statements' \in 2 .. MaxStatements
    /\ UNCHANGED <<deliberation, config, social_choice, habermas, submissions,
                   stored_statements, tasks, response, num_retries_on_error,
                   seed, samples, model_result, returned, calling>>

\* ranking_result = _process_model_response(response, len(statements))
process_response ==
    /\ model_response # NoResponse
    /\ ~ returned
    /\ model_result' = process_model_response(model_response, num_statements)
    /\ returned' = TRUE
    /\ UNCHANGED <<deliberation, config, social_choice, habermas, submissions,
                   stored_statements, tasks, response, num_retries_on_error,
                   seed, samples, model_response, num_statements, calling>>

ParseNext == sample_text \/ process_response

ParseSpec == ParseInit /\ [][ParseNext]_vars

\* ---- COTRankingModel.predict_ranking: the retries ----
MaxRetries == 2         \* num_retries_on_error: 0 .. MaxRetries
GivenSeed == 5          \* the seed of a call that gives one

\* 'INCORRECT' in ranking_result.explanation: in the prefix of a failure, or
\* in the text of the response itself
ContainsINCORRECT(ranking_result) ==
    \/ ranking_result.explanation.prefix # ""
    \/ ranking_result.explanation.response.incorrect

\* the responses of a call: a ranking of two statements, the same in a text
\* that holds the word INCORRECT, a ranking of three statements, a letter
\* that names no statement, no arrow, no template
RetryResponses ==
    {[template |-> "answer", explanation |-> <<"A", "x">>,
      ranking |-> <<"B", ">", "A">>, incorrect |-> FALSE],
     [template |-> "answer", explanation |-> <<"A", "x">>,
      ranking |-> <<"B", ">", "A">>, incorrect |-> TRUE],
     [template |-> "answer", explanation |-> <<"A", "x">>,
      ranking |-> <<"A", "=", "C", ">", "B">>, incorrect |-> FALSE],
     [template |-> "answer", explanation |-> <<"A", "x">>,
      ranking |-> <<"A", ">", "C">>, incorrect |-> FALSE],
     [template |-> "answer", explanation |-> <<"A", "x">>,
      ranking |-> <<"A", "<", "B">>, incorrect |-> FALSE],
     [template |-> "none", explanation |-> <<"A", "x">>,
      ranking |-> <<"A", ">", "B">>, incorrect |-> FALSE]}

\* predict_ranking(llm_client, ..., statements, seed, num_retries_on_error)
\* is called: num_retries_on_error None is 0
predict_ranking(n, s, retries) ==
    /\ calling = ""
    /\ calling' = "predict_ranking"
    /\ num_statements' = n
    /\ seed' = s
    /\ num_retries_on_error' = retries
    /\ UNCHANGED <<deliberation, config, social_choice, habermas, submissions,
                   stored_statements, tasks, response, samples, model_response,
                   model_result, returned>>

\* one pass of the loop, ended by the return of a result without INCORRECT
predict_ranking_return(rsp) ==
    /\ calling = "predict_ranking"
    /\ ~ returned
    /\ Len(samples) < num_retries_on_error + 1
    /\ LET ranking_result == process_model_response(rsp, num_statements)
       IN  /\ ranking_result.ranking # <<>>
           /\ ~ ContainsINCORRECT(ranking_result)
           /\ model_result' = ranking_result
    /\ samples' = Append(samples, seed)
    /\ model_response' = rsp
    /\ returned' = TRUE
    /\ UNCHANGED <<deliberation, config, social_choice, habermas, submissions,
                   stored_statements, tasks, response, num_retries_on_error,
                   seed, num_statements, calling>>

\* one pass of the loop that goes on: seed += 1 when a seed was given
predict_ranking_retry(rsp) ==
    /\ calling = "predict_ranking"
    /\ ~ returned
    /\ Len(samples) < num_retries_on_error + 1
    /\ LET ranking_result == process_model_response(rsp, num_statements)
       IN  /\ ranking_result.ranking = <<>> \/ ContainsINCORRECT(ranking_result)
           /\ model_result' = ranking_result
    /\ samples' = Append(samples, seed)
    /\ model_response' = rsp
    /\ seed' = IF seed # None THEN seed + 1 ELSE seed
    /\ UNCHANGED <<deliberation, config, social_choice, habermas, submissions,
                   stored_statements, tasks, response, num_retries_on_error,
                   num_statements, returned, calling>>

\* "If we reach here, all retries failed. return the last result."
predict_ranking_exhausted ==
    /\ calling = "predict_ranking"
    /\ ~ returned
    /\ Len(samples) = num_retries_on_error + 1
    /\ returned' = TRUE
    /\ UNCHANGED <<deliberation, config, social_choice, habermas, submissions,
                   stored_statements, tasks, response, num_retries_on_error,
                   seed, samples, model_response, num_statements,
                   model_result, calling>>

RetryInit ==
    /\ Init
    /\ max_citizens = None
    /\ num_critique_rounds = 1

RetryNext ==
    \/ \E n \in 2 .. MaxStatements, s \in {None, GivenSeed},
          retries \in 0 .. MaxRetries :
            predict_ranking(n, s, retries)
    \/ \E rsp \in RetryResponses : predict_ranking_return(rsp)
    \/ \E rsp \in RetryResponses : predict_ranking_retry(rsp)
    \/ predict_ranking_exhausted

RetrySpec == RetryInit /\ [][RetryNext]_vars

\* ---- statement_model.cot_model: COTModel.generate_statement ----
\* the statements of a response: '', five characters, six characters
StatementsOfResponse ==
    {<<>>, <<"x", "x", "x", "x", "x">>, <<"x", "x", "x", "x", "x", "x">>}

\* the responses of the statement model: with <answer>, <sep> and </answer>
\* or without; incorrect: the explanation holds the word INCORRECT
StatementResponses ==
    [template : {"answer", "none"}, statement : StatementsOfResponse,
     incorrect : BOOLEAN]

\* base_model.StatementResult(statement, explanation)
StatementResult(statement, prefix, incorrect) ==
    [statement |-> statement,
     explanation |-> [prefix |-> prefix, incorrect |-> incorrect]]

\* cot_model._process_model_response(response)
statement_of_response(rsp) ==
    IF rsp.template = "answer"
    THEN StatementResult(rsp.statement, "", rsp.incorrect)
    ELSE StatementResult(<<>>, "INCORRECT_TEMPLATE", FALSE)

\* len(statement) > 5 and 'INCORRECT' not in explanation
Accepted(statement_result) ==
    /\ Len(statement_result.statement) > 5
    /\ statement_result.explanation.prefix = ""
    /\ ~ statement_result.explanation.incorrect

\* generate_statement(llm_client, ..., seed, num_retries_on_error) is
\* called: statement, explanation = '', ''
generate_statement(s, retries) ==
    /\ calling = ""
    /\ calling' = "generate_statement"
    /\ seed' = s
    /\ num_retries_on_error' = retries
    /\ model_result' = StatementResult(<<>>, "", FALSE)
    /\ UNCHANGED <<deliberation, config, social_choice, habermas, submissions,
                   stored_statements, tasks, response, samples, model_response,
                   num_statements, returned>>

\* one pass of `for _ in range(num_retries_on_error)` that returns
generate_statement_return(rsp) ==
    /\ calling = "generate_statement"
    /\ ~ returned
    /\ Len(samples) < num_retries_on_error
    /\ Accepted(statement_of_response(rsp))
    /\ model_result' = statement_of_response(rsp)
    /\ samples' = Append(samples, seed)
    /\ model_response' = rsp
    /\ returned' = TRUE
    /\ UNCHANGED <<deliberation, config, social_choice, habermas, submissions,
                   stored_statements, tasks, response, num_retries_on_error,
                   seed, num_statements, calling>>

\* one pass of the loop that goes on
generate_statement_retry(rsp) ==
    /\ calling = "generate_statement"
    /\ ~ returned
    /\ Len(samples) < num_retries_on_error
    /\ ~ Accepted(statement_of_response(rsp))
    /\ model_result' = statement_of_response(rsp)
    /\ samples' = Append(samples, seed)
    /\ model_response' = rsp
    /\ seed' = IF seed # None THEN seed + 1 ELSE seed
    /\ UNCHANGED <<deliberation, config, social_choice, habermas, submissions,
                   stored_statements, tasks, response, num_retries_on_error,
                   num_statements, returned, calling>>

\* "If we reach here, all retries failed. Return the last result."
generate_statement_exhausted ==
    /\ calling = "generate_statement"
    /\ ~ returned
    /\ Len(samples) = num_retries_on_error
    /\ returned' = TRUE
    /\ UNCHANGED <<deliberation, config, social_choice, habermas, submissions,
                   stored_statements, tasks, response, num_retries_on_error,
                   seed, samples, model_response, num_statements,
                   model_result, calling>>

StatementInit ==
    /\ Init
    /\ max_citizens = None
    /\ num_critique_rounds = 1

StatementNext ==
    \/ \E s \in {None, GivenSeed}, retries \in 0 .. MaxRetries :
          generate_statement(s, retries)
    \/ \E rsp \in StatementResponses : generate_statement_return(rsp)
    \/ \E rsp \in StatementResponses : generate_statement_retry(rsp)
    \/ generate_statement_exhausted

StatementSpec == StatementInit /\ [][StatementNext]_vars

\* ---- the claims ----
StatementsOf(round) == {s \in statements : s.round_number = round}

\* C1: the persisted stage only ever moves along OPINION -> RANKING ->
\* CRITIQUE -> (RANKING | CONCLUDED) -> FINALIZED: it never moves backwards,
\* never skips a stage, and nothing changes it once it is FINALIZED.
C1_StageOrder ==
    [][\/ stage' = stage
       \/ <<stage, stage'>> \in {<<OPINION, RANKING>>, <<RANKING, CRITIQUE>>,
                                 <<CRITIQUE, RANKING>>, <<CRITIQUE, CONCLUDED>>,
                                 <<CONCLUDED, FINALIZED>>}]_vars

\* C2: at no time are two engine rounds of the deliberation in progress, and
\* no round of the deliberation is generated twice.
C2_OneRoundAtATime ==
    /\ BagCardinality(running) <= 1
    /\ \A r \in 0 .. MaxCritiqueRounds : Cardinality(Winners(r)) <= 1

\* C3: with max_citizens set, the deliberation never holds more than
\* max_citizens opinions (of two racing submissions for the last place only
\* one is accepted).
C3_AtMostMaxOpinions ==
    max_citizens # None => BagCardinality(opinions) <= max_citizens

\* C4: once the stage is past OPINION, every round 0..current_round has
\* exactly num_candidates statements whose social_rank values are 1..
\* num_candidates, each used once.
C4_RoundStatements ==
    stage # OPINION =>
        \A r \in 0 .. current_critique_round :
            /\ Cardinality(StatementsOf(r)) = NumCandidates
            /\ \A k \in 1 .. NumCandidates :
                  Cardinality({s \in StatementsOf(r) : s.social_ranking = k}) = 1

\* C5: the store holds at most one opinion per agent, one ranking per
\* (agent, round), one critique per (agent, round), one feedback per agent.
C5_UniqueSubmissions ==
    /\ \A a \in DOMAIN opinions : opinions[a] = 1
    /\ \A x \in DOMAIN rankings : rankings[x] = 1
    /\ \A x, y \in DOMAIN critiques :
          /\ critiques[x] = 1
          /\ x.agent_id = y.agent_id /\ x.round_number = y.round_number => x = y
    /\ \A x, y \in DOMAIN human_feedback :
          /\ human_feedback[x] = 1
          /\ x.agent_id = y.agent_id => x = y

\* every table holds rows, the second round has been ranked and criticised
C5_Witness ==
    /\ BagCardinality(opinions) >= 2
    /\ RankingCount(1) >= 2
    /\ CritiqueCount(1) >= 2
    /\ BagCardinality(human_feedback) >= 2

\* C6: once the deliberation has left OPINION, num_citizens equals the
\* number of stored opinions, and neither changes in any later step.
C6_FrozenParticipants ==
    /\ [](stage # OPINION => num_citizens = BagCardinality(opinions))
    /\ [][stage # OPINION =>
            num_citizens' = num_citizens /\ opinions' = opinions]_vars

\* the deliberation left OPINION with an opinion that arrived while the
\* round was running, and a second round is still to write num_citizens
C6_Witness ==
    /\ stage # OPINION
    /\ num_citizens = 3
    /\ \E t \in BagToSet(running) :
          t.kind = "opinion" /\ Len(t.opinions_text) = 2

\* C7: at the moment the deliberation leaves RANKING for round r, the number
\* of stored rankings of round r equals num_citizens exactly.
C7_ExactRankings ==
    [][stage = RANKING /\ stage' = CRITIQUE =>
          RankingCount(current_critique_round) = num_citizens]_vars

\* C8: the deliberation never leaves OPINION with fewer than 2 opinions nor,
\* when max_citizens is set, with fewer than max_citizens; a transition
\* check that runs while a bound is unmet changes nothing but the queue.
C8_OpinionBounds ==
    [][/\ stage = OPINION /\ stage' # OPINION =>
            /\ BagCardinality(opinions) >= 2
            /\ max_citizens # None => BagCardinality(opinions) >= max_citizens
       /\ ( /\ stage = OPINION
            /\ pending' = pending - 1
            /\ \/ BagCardinality(opinions) < 2
               \/ max_citizens # None /\ BagCardinality(opinions) < max_citizens )
          => UNCHANGED <<deliberation, config, submissions, stored_statements,
                         pending_feedback, running, committing>>]_vars

\* the deliberation has left OPINION with max_citizens set and larger than 2
C8_Witness ==
    /\ stage = RANKING
    /\ max_citizens = 3
    /\ BagCardinality(opinions) = 3

\* C9 as written: a deliberation that has reached CONCLUDED has
\* current_round = num_critique_rounds (and has run rounds 0..that).
C9_ConcludedAtNumRounds ==
    stage = CONCLUDED => current_critique_round = num_critique_rounds

\* C9 amended: when the critiques of round r are complete and the check
\* runs, the engine is started for round r + 1 if r < num_critique_rounds - 1
\* and the stage becomes CONCLUDED otherwise; a round that succeeds sets
\* current_round to its round and the stage to RANKING; the deliberation
\* enters CONCLUDED with current_round = num_critique_rounds - 1 and with
\* statements for the rounds 0..num_critique_rounds - 1.
C9_ConcludedAfterLastRound ==
    [][/\ ( /\ stage = CRITIQUE
            /\ pending' = pending - 1
            /\ CritiqueCount(current_critique_round) >= num_citizens )
          => IF current_critique_round < num_critique_rounds - 1
             THEN /\ stage' = CRITIQUE
                  /\ \E t \in BagToSet(running') :
                        /\ t.kind = "critique"
                        /\ t.round_number = current_critique_round + 1
                        /\ running' = running (+) SetToBag({t})
             ELSE /\ stage' = CONCLUDED
                  /\ running' = running
       /\ current_critique_round' # current_critique_round =>
             /\ committing'.kind = "critique"
             /\ current_critique_round' = committing'.round_number
       /\ committing.kind = "critique" /\ committing' = NoTask =>
             stage' = RANKING
       /\ stage # CONCLUDED /\ stage' = CONCLUDED =>
             /\ current_critique_round' = num_critique_rounds - 1
             /\ \A r \in 0 .. num_critique_rounds - 1 : StatementsOf(r) # {}
      ]_vars

\* a deliberation of two rounds has concluded after its second round
C9_Witness ==
    /\ stage = CONCLUDED
    /\ num_critique_rounds = 2
    /\ current_critique_round = 1
    /\ concluded_at # None

\* C10: with one critique round, a working engine, every task run and every
\* participant submitting when the stage allows it, the deliberation
\* eventually is FINALIZED with started, concluded and finalized in order.
C10_EventuallyFinalized ==
    <>( /\ stage = FINALIZED
        /\ started_at # None
        /\ started_at <= concluded_at
        /\ concluded_at <= finalized_at )

\* C11: a submission for an unknown deliberation, in a stage that does not
\* accept it, or repeated for the same (agent, round) key is answered 404,
\* 400, 409: it stores nothing, changes nothing of the deliberation and
\* enqueues no check; a row is only ever stored by a request answered 201,
\* in the accepting stage, for a key that had no row.
Rejected == {HTTP_400_BAD_REQUEST, HTTP_404_NOT_FOUND, HTTP_409_CONFLICT}

C11_RejectedChangesNothing ==
    [][/\ response' # response /\ response' \in Rejected =>
             UNCHANGED <<deliberation, config, submissions, stored_statements,
                         tasks>>
       /\ opinions' # opinions =>
             /\ stage = OPINION /\ response' = HTTP_201_CREATED
             /\ \E agent \in Agents :
                   ~ BagIn(agent, opinions) /\ opinions' = Insert(opinions, agent)
       /\ rankings' # rankings =>
             /\ stage = RANKING /\ response' = HTTP_201_CREATED
             /\ \E row \in BagToSet(rankings') :
                   /\ rankings' = Insert(rankings, row)
                   /\ row.round_number = current_critique_round
                   /\ ~ \E x \in BagToSet(rankings) :
                         x.agent_id = row.agent_id
                         /\ x.round_number = row.round_number
       /\ critiques' # critiques =>
             /\ stage = CRITIQUE /\ response' = HTTP_201_CREATED
             /\ \E row \in BagToSet(critiques') :
                   /\ critiques' = Insert(critiques, row)
                   /\ row.round_number = current_critique_round
                   /\ ~ \E x \in BagToSet(critiques) :
                         x.agent_id = row.agent_id
                         /\ x.round_number = row.round_number
       /\ human_feedback' # human_feedback =>
             /\ stage = CONCLUDED /\ response' = HTTP_201_CREATED
             /\ \E row \in BagToSet(human_feedback') :
                   /\ human_feedback' = Insert(human_feedback, row)
                   /\ ~ \E x \in BagToSet(human_feedback) :
                         x.agent_id = row.agent_id
      ]_vars

\* a second ranking of the same round has just been refused while a check
\* of the first is still enqueued
C11_Witness ==
    /\ response = HTTP_409_CONFLICT
    /\ stage = RANKING
    /\ RankingCount(current_critique_round) = 1
    /\ pending = 1

\* C12: a transition check that starts an engine round persists nothing
\* before the round returns, and the step in which the round aborts leaves
\* the stage, the current round, num_citizens, the timestamps and the stored
\* statements as they are, for the opinion round and for a critique round.
C12_AbortPersistsNothing ==
    [][running' # running /\ committing' = NoTask =>
          UNCHANGED <<stage, current_critique_round, num_citizens,
                      started_at, concluded_at, finalized_at, statements,
                      next_statement_id>>]_vars

\* every check has run and no round is in progress, yet the deliberation is
\* still in OPINION with enough opinions: the round it started has aborted
C12_Witness ==
    /\ stage = OPINION
    /\ OpinionPredicate
    /\ TaskCount = 0
    /\ LoopFree
    /\ statements = {}

\* C13: no persisted state shows statements of a round together with the
\* stage or round of before the transition: no statements while the stage is
\* OPINION, and in CRITIQUE the current round is one whose rankings were
\* collected.
C13_AtomicTransition ==
    /\ stage = OPINION => statements = {}
    /\ stage = CRITIQUE =>
          RankingCount(current_critique_round) >= num_citizens

\* C14: every stored ranking of round r gives each of the K statements of
\* round r one rank, and uses each of the ranks 1..K once (a list that does
\* not is refused and not stored).
C14_StoredRankingsArePermutations ==
    \A row \in BagToSet(rankings) :
        LET ids == {s.id : s \in StatementsOf(row.round_number)}
            list == row.statement_rankings
        IN  /\ {e.statement_id : e \in list} = ids
            /\ {e.rank : e \in list} = 1 .. Cardinality(ids)
            /\ Cardinality(list) = Cardinality(ids)

\* C15: every stored critique of round r references a statement of round r
\* with social_ranking 1; a critique is only stored in stage CRITIQUE, under
\* the round that is current, after the rankings of that round were
\* collected.
C15_CritiqueOfWinner ==
    /\ [](\A c \in BagToSet(critiques) :
            \E s \in statements :
                /\ s.id = c.winning_statement_id
                /\ s.round_number = c.round_number
                /\ s.social_ranking = 1)
    /\ [][critiques' # critiques =>
            /\ stage = CRITIQUE
            /\ RankingCount(current_critique_round) >= num_citizens
            /\ \E c \in BagToSet(critiques') :
                  /\ critiques' = Insert(critiques, c)
                  /\ c.round_number = current_critique_round]_vars

\* critiques of the first and of the second round are stored
C15_Witness ==
    /\ CritiqueCount(0) >= 2
    /\ CritiqueCount(1) >= 1

\* C16: every stored feedback references the one and only statement with
\* social_ranking 1 of the final round of the deliberation (the round
\* num_critique_rounds, or num_critique_rounds - 1 when the rounds are
\* counted from 0), so all the feedback of a deliberation references the
\* same statement.
C16_OneFinalStatement ==
    \A f \in BagToSet(human_feedback) :
        \E r \in {num_critique_rounds - 1, num_critique_rounds} :
            /\ Cardinality(Winners(r)) = 1
            /\ \A s \in Winners(r) : s.id = f.final_statement_id

\* C17: when the deliberation enters RANKING again, for a round r + 1 > 0, no
\* ranking and no critique of round r + 1 is stored yet; a ranking or
\* critique is stored under the round that is current when it is accepted;
\* and RANKING (CRITIQUE) of a round is left on the count of the rankings
\* (critiques) of that round only.
C17_RoundStartsEmpty ==
    [][/\ ( stage # RANKING /\ stage' = RANKING
            /\ current_critique_round' > 0 )
          => /\ RankingCount(current_critique_round') = 0
             /\ CritiqueCount(current_critique_round') = 0
       /\ \A row \in BagToSet(rankings') :
             CopiesIn(row, rankings') > CopiesIn(row, rankings) =>
                 row.round_number = current_critique_round
       /\ \A row \in BagToSet(critiques') :
             CopiesIn(row, critiques') > CopiesIn(row, critiques) =>
                 row.round_number = current_critique_round
       /\ stage = RANKING /\ stage' = CRITIQUE =>
             RankingCount(current_critique_round) >= num_citizens
       /\ stage = CRITIQUE /\ stage' = CONCLUDED =>
             CritiqueCount(current_critique_round) >= num_citizens
      ]_vars

\* C18: started_at is written exactly in the step that leaves OPINION,
\* concluded_at exactly in the step that enters CONCLUDED, finalized_at
\* exactly in the step that enters FINALIZED; none of them is written a
\* second time; and started_at <= concluded_at <= finalized_at once set.
C18_TimestampsWrittenOnce ==
    /\ [][/\ started_at' # started_at <=> stage = OPINION /\ stage' # OPINION
          /\ concluded_at' # concluded_at <=>
                stage # CONCLUDED /\ stage' = CONCLUDED
          /\ finalized_at' # finalized_at <=>
                stage # FINALIZED /\ stage' = FINALIZED
          /\ started_at # None => started_at' = started_at
          /\ concluded_at # None => concluded_at' = concluded_at
          /\ finalized_at # None => finalized_at' = finalized_at]_vars
    /\ [](/\ concluded_at # None =>
                started_at # None /\ started_at <= concluded_at
          /\ finalized_at # None =>
                concluded_at # None /\ concluded_at <= finalized_at)

\* x is preferred to every other candidate by more citizens than prefer
\* that candidate to x
CondorcetWinner(rows, x) ==
    LET D == compute_pairwise_defeats(rows)
    IN  \A y \in Candidates \ {x} : D[x][y] > D[y][x]

\* C19: for every valid array of rankings (ties allowed, no mock rows), a
\* candidate that pairwise beats every other candidate gets the social rank
\* 0 from aggregate_with_ties, and no other candidate gets rank 0.
C19_Condorcet ==
    ( /\ social_ranking_result # NoResult
      /\ Len(all_rankings) > 0
      /\ filter_out_mocks(all_rankings) = all_rankings )
    => \A x \in Candidates :
          CondorcetWinner(all_rankings, x) =>
              /\ social_ranking_result.social_ranking[x] = 0
              /\ \A y \in Candidates \ {x} :
                    social_ranking_result.social_ranking[y] # 0

\* three citizens, one of them with a tie, and a candidate that is not the
\* first of every ballot beats both others
C19_Witness ==
    /\ social_ranking_result # NoResult
    /\ Len(all_rankings) = MaxVoters
    /\ filter_out_mocks(all_rankings) = all_rankings
    /\ \E i \in DOMAIN all_rankings : ~ is_untied_ranking(all_rankings[i])
    /\ \E x \in Candidates :
          /\ CondorcetWinner(all_rankings, x)
          /\ \E i \in DOMAIN all_rankings : all_rankings[i][x] # 0

\* C20: with tie breaking TBRC or RANDOM, the untied ranking aggregate
\* returns is a strict permutation of 0..K-1 for every valid array and every
\* seed; it equals the tied ranking when that has no ties; and when every
\* row is mock the tied ranking is mock in every column.
C20_UntiedIsPermutation ==
    ( /\ social_ranking_result # NoResult
      /\ tie_breaking_method \in {TBRC, RANDOM} )
    => /\ social_ranking_result.untied_social_ranking \in RandomBallots
       /\ is_untied_ranking(social_ranking_result.social_ranking) =>
             social_ranking_result.untied_social_ranking
                 = social_ranking_result.social_ranking
       /\ Len(filter_out_mocks(all_rankings)) = 0 =>
             social_ranking_result.social_ranking = MockRow

\* TBRC, the social ranking has ties, and no ballot of the citizens is
\* strict, so the ballots cannot break all ties
C20_Witness ==
    /\ social_ranking_result # NoResult
    /\ tie_breaking_method = TBRC
    /\ Len(all_rankings) = MaxVoters
    /\ filter_out_mocks(all_rankings) = all_rankings
    /\ \A i \in DOMAIN all_rankings : ~ is_untied_ranking(all_rankings[i])
    /\ \E i, j \in DOMAIN all_rankings : all_rankings[i] # all_rankings[j]
    /\ ~ is_untied_ranking(social_ranking_result.social_ranking)
    /\ social_ranking_result.untied_social_ranking \in RandomBallots

\* the paths from x to y over distinct candidates along which every step
\* (a, b) has D[a][b] > D[b][a]
BeatPaths(D, x, y) ==
    {p \in UNION {[1 .. n -> Candidates] : n \in 2 .. num_candidates} :
        /\ p[1] = x /\ p[Len(p)] = y
        /\ \A i, j \in DOMAIN p : p[i] = p[j] => i = j
        /\ \A i \in 1 .. Len(p) - 1 : D[p[i]][p[i + 1]] > D[p[i + 1]][p[i]]}

\* the smallest D value along a path
PathStrength(D, p) ==
    CHOOSE m \in {D[p[i]][p[i + 1]] : i \in 1 .. Len(p) - 1} :
        \A i \in 1 .. Len(p) - 1 : m <= D[p[i]][p[i + 1]]

\* the largest strength of a path from x to y, 0 without a path
WidestPath(D, x, y) ==
    LET strengths == {PathStrength(D, p) : p \in BeatPaths(D, x, y)}
    IN  IF x = y \/ strengths = {} THEN 0
        ELSE CHOOSE m \in strengths : \A n \in strengths : n <= m

\* C21: for the pairwise defeats D of valid ballots, P = strongest path
\* strengths has P[x][y] = the maximum over the paths from x to y along
\* steps (a, b) with D[a][b] > D[b][a] of the minimum D on the path, 0
\* without such a path and on the diagonal; the social ranking orders the
\* candidates by the number of y with P[x][y] >= P[y][x]; Example 1 (30
\* voters, 4 candidates) gives [1, 3, 2, 0].
C21_StrongestPaths ==
    ( /\ social_ranking_result # NoResult
      /\ Len(filter_out_mocks(all_rankings)) > 0 )
    => LET D == compute_pairwise_defeats(filter_out_mocks(all_rankings))
           P == compute_strongest_path_strengths(D)
           count == [x \in Candidates |->
                        Cardinality({y \in Candidates : P[x][y] >= P[y][x]})]
           tied_ranks == social_ranking_result.social_ranking
       IN  /\ \A x, y \in Candidates : P[x][y] = WidestPath(D, x, y)
           /\ \A x, y \in Candidates :
                 tied_ranks[x] < tied_ranks[y] <=> count[x] > count[y]
           /\ all_rankings = Example1 =>
                 tied_ranks = Int32Row(<<1, 3, 2, 0>>)

\* Example 1 has been aggregated, and its strongest path from candidate 0
\* to candidate 1 goes through a third candidate
C21_Witness ==
    /\ social_ranking_result # NoResult
    /\ all_rankings = Example1
    /\ LET D == compute_pairwise_defeats(all_rankings)
       IN  /\ D[0][1] < D[1][0]
           /\ compute_strongest_path_strengths(D)[0][1] > D[0][1]

\* the arguments of the mediate calls that returned, in order
Mediated ==
    LET succeeded == SelectSeq(calls, LAMBDA c :
                         c.method = "mediate" /\ ~ c.raised)
    IN  [i \in DOMAIN succeeded |-> succeeded[i].argument]

\* no winner has been overwritten by a call of overwrite_previous_winner
NotOverwritten ==
    \A i \in DOMAIN calls :
        calls[i].method = "overwrite_previous_winner" => calls[i].raised

\* C22: after k >= 1 mediate calls of one machine have returned, the round
\* is k, the opinions are the argument of the first, the critiques are the
\* arguments of the calls 2..k in order, previous_winners and
\* previous_candidates hold k entries, and each winner is the first of its
\* round's sorted candidates; a mediate call with an argument of another
\* length than num_citizens raises and changes none of these.
C22_MachineState ==
    /\ [](NotOverwritten /\ Len(Mediated) >= 1 =>
            /\ machine.round = Len(Mediated)
            /\ machine.opinions = Mediated[1]
            /\ machine.critiques = Tail(Mediated)
            /\ Len(machine.previous_winners) = Len(Mediated)
            /\ Len(machine.previous_candidates) = Len(Mediated)
            /\ \A r \in DOMAIN machine.previous_winners :
                  /\ r \in DOMAIN machine.previous_candidates
                  /\ machine.previous_winners[r]
                        = machine.previous_candidates[r][1])
    /\ [][\A c \in {calls'[i] : i \in DOMAIN calls' \ DOMAIN calls} :
            c.method = "mediate" /\ Len(c.argument) # MachineCitizens =>
                c.raised /\ machine' = machine]_vars

\* C23: in every engine run for a critique round the opinion list and the
\* critique list handed to the engine have the same length and are aligned:
\* at every index the opinion and the critique are of the same participant,
\* whatever the order of the submissions.
C23_AlignedInputs ==
    \A t \in BagToSet(running) :
        t.kind = "critique" =>
            /\ Len(t.opinions_text) = Len(t.critiques_text)
            /\ \A i \in DOMAIN t.opinions_text :
                  t.opinions_text[i] = t.critiques_text[i]

\* the texts of the persisted statements of a round with social_ranking 1
WinnerTexts(round) == {statement_text[s.id] : s \in Winners(round)}

\* C24: when the engine generates the statements of round r + 1, the
\* previous_winner it uses is the persisted statement of round r with
\* social_ranking 1, the statement the stored critiques of round r name as
\* winning statement.
C24_PreviousWinnerPersisted ==
    [][machine'.round = 2 /\ statements' # statements =>
          LET r == current_critique_round' - 1
              previous_winner == machine'.previous_winners[1]
          IN  /\ previous_winner \in WinnerTexts(r)
              /\ \A c \in BagToSet(OfRound(critiques, r)) :
                    statement_text[c.winning_statement_id] = previous_winner
      ]_vars

\* C25: the opinions given to the engine run of round 0 are exactly the
\* opinions counted in num_citizens: when the deliberation leaves OPINION,
\* num_citizens is the number of opinions the run was given, and an opinion
\* accepted while the run was executing is not counted.
C25_CountedOpinionsWereInputs ==
    [][stage = OPINION /\ stage' # OPINION =>
          /\ committing # NoTask
          /\ num_citizens' = Len(committing.opinions_text)
          /\ \A agent \in Agents :
                CopiesIn(agent, opinions') =
                    Cardinality({i \in DOMAIN committing.opinions_text :
                                    committing.opinions_text[i] = agent})
      ]_vars

\* C29: _process_model_response returns a rank vector for K statements only
\* if the arrow ranking names exactly the first K letters, once each; entry
\* i is then the number of '>' before the i-th letter.
C29_FirstLettersOnly ==
    returned /\ model_result.ranking # <<>> =>
        LET arrow_ranking == arrow_ranking_of(model_response)
            Position(i) ==
                CHOOSE p \in DOMAIN arrow_ranking :
                    arrow_ranking[p] = Alphabet[i]
        IN  /\ \A p \in DOMAIN arrow_ranking :
                  arrow_ranking[p] \in Letters =>
                      \E i \in 1 .. num_statements :
                          arrow_ranking[p] = Alphabet[i]
            /\ \A i \in 1 .. num_statements :
                  Cardinality({p \in DOMAIN arrow_ranking :
                                  arrow_ranking[p] = Alphabet[i]}) = 1
            /\ Len(model_result.ranking) = num_statements
            /\ \A i \in 1 .. num_statements :
                  model_result.ranking[i] =
                      Cardinality({p \in 1 .. Position(i) :
                                      arrow_ranking[p] = ">"})

\* the response names the first K letters once each, in a correct template
\* and arrow format
WellFormed(rsp, n) ==
    /\ rsp.template # "none"
    /\ LET arrow_ranking == arrow_ranking_of(rsp)
       IN  /\ arrow_ranking # <<>>
           /\ check_arrow_format(arrow_ranking)
           /\ {arrow_ranking[p] : p \in DOMAIN arrow_ranking} \cap Letters
                 = {Alphabet[i] : i \in 1 .. n}

\* C26: predict_ranking with retry limit n makes at most n + 1 model calls,
\* the j-th retry with seed + j when a seed is given; it returns at the
\* first response that parses to a ranking, so a pass that went on left no
\* ranking; after n + 1 failed passes it returns a nil ranking; and it never
\* returns a ranking from a malformed response.
C26_PredictRanking ==
    /\ Len(samples) <= num_retries_on_error + 1
    /\ \A j \in DOMAIN samples :
          samples[j] = IF samples[1] = None THEN None ELSE samples[1] + j - 1
    /\ (calling = "predict_ranking" /\ ~ returned /\ samples # <<>>
          => model_result.ranking = <<>>)
    /\ (returned /\ model_result.ranking = <<>>
          => /\ Len(samples) = num_retries_on_error + 1
             /\ model_result.explanation.prefix # "")
    /\ (returned /\ model_result.ranking # <<>>
          => WellFormed(model_response, num_statements))

\* C27: generate_statement with retry limit n makes one model call and at
\* most n retries: it has sampled at least once when it returns, also with
\* n = 0; it returns at the first accepted response, and otherwise, after
\* n + 1 calls, what the last response parsed to.
C27_GenerateStatement ==
    /\ Len(samples) <= num_retries_on_error + 1
    /\ (calling = "generate_statement" /\ returned
          => /\ Len(samples) >= 1
             /\ model_result = statement_of_response(model_response)
             /\ (~ Accepted(model_result)
                   => Len(samples) = num_retries_on_error + 1))
    /\ (calling = "generate_statement" /\ ~ returned /\ samples # <<>>
          => ~ Accepted(model_result))

\* a deliberation in CRITIQUE whose critiques are all stored and whose check
\* has run: no check is enqueued that could start a run on as many
\* critiques as opinions, and no such run is in progress
Stuck ==
    /\ stage = CRITIQUE
    /\ AnotherRound
    /\ committing = NoTask
    /\ CritiqueCount(current_critique_round) >= num_citizens
    /\ \A t \in BagToSet(running) :
          t.kind = "critique" /\ Len(t.critiques_text) # Len(t.opinions_text)
    /\ (pending > 0 =>
          CritiqueCount(current_critique_round) # BagCardinality(opinions))

\* no step of the program leads out of Stuck: the stage stays CRITIQUE
StuckIsClosed == [][Stuck => Stuck']_vars

\* C28: after an aborted round with every required submission stored, some
\* operation on the deliberation checks the transition again and the stage
\* advances when the engine succeeds: the deliberation is never in a state
\* it cannot leave, in CRITIQUE with the predicate satisfied.
C28_NeverStuck == ~ Stuck

\* ranking b keeps every strict order of ranking a
Refines(a, b) == \A x, y \in Candidates : a[x] < a[y] => b[x] < b[y]

\* C30 as written: tie breaking only refines the tied ranking, for every
\* array, seed and method; the winner (untied rank 0) is a candidate with
\* tied rank 0; and untie_ranking_with_ballot with any ballot keeps every
\* strict order of its ranking.
C30_WinnerHasTiedRankZero ==
    social_ranking_result # NoResult =>
        /\ Refines(social_ranking_result.social_ranking,
                   social_ranking_result.untied_social_ranking)
        /\ \A x \in Candidates :
              social_ranking_result.untied_social_ranking[x] = 0 =>
                  social_ranking_result.social_ranking[x] = 0
        /\ \A ballot \in Ballots \cup RandomBallots :
              Refines(social_ranking_result.social_ranking,
                      untie_ranking_with_ballot(
                          social_ranking_result.social_ranking, ballot))

\* C30, amended: the same, but the winner is a candidate with the lowest
\* tied rank: 0, or RANKING_MOCK when every row of the array is mock.
C30_TieBreakingRefines ==
    social_ranking_result # NoResult =>
        /\ Refines(social_ranking_result.social_ranking,
                   social_ranking_result.untied_social_ranking)
        /\ \A x \in Candidates :
              social_ranking_result.untied_social_ranking[x] = 0 =>
                  social_ranking_result.social_ranking[x] =
                      IF Len(filter_out_mocks(all_rankings)) = 0
                      THEN RANKING_MOCK ELSE 0
        /\ \A ballot \in Ballots \cup RandomBallots :
              Refines(social_ranking_result.social_ranking,
                      untie_ranking_with_ballot(
                          social_ranking_result.social_ranking, ballot))

\* TBRC on a social ranking that has both a tie and a strict order, with
\* the tie broken in the untied ranking
C30_Witness ==
    /\ social_ranking_result # NoResult
    /\ tie_breaking_method = TBRC
    /\ Len(filter_out_mocks(all_rankings)) > 0
    /\ ~ is_untied_ranking(social_ranking_result.social_ranking)
    /\ \E x, y \in Candidates :
          social_ranking_result.social_ranking[x]
              < social_ranking_result.social_ranking[y]
    /\ is_untied_ranking(social_ranking_result.untied_social_ranking)
====
